---------------------------- MODULE Spec2Model ----------------------------
(* AWS SigV4 signing of fusio: src/src/remotes/aws/credential.rs.          *)
(* Strings are TLA+ strings, handled character by character with Head,     *)
(* Tail, SubSeq, Len and \o.  SHA-256 and HMAC-SHA256 are free symbolic    *)
(* constructors (collision free), except for the digest of the empty       *)
(* string, which is the well known constant.                               *)
EXTENDS Integers, Sequences, FiniteSets, TLC

VARIABLES
    pc,       \* "idle", "frame" (authorize suspended at body.frame()), "done"
    op,       \* the operation that ran last
    auth,     \* the AwsAuthorizer of the call
    cur_date, \* the date of the call: the authorizer's, or the clock's
    pre,      \* authorize: the pre_calculated_digest
    req0,     \* authorize: the request as it was passed in
    req,      \* authorize: the request
    url0,     \* sign and the pure functions: the Url as it was passed in
    cur_url,  \* sign: the Url
    args,     \* the other arguments of the call
    result,   \* Ok or the error of the call, None while it runs
    tr,       \* what the call computed
    prev,     \* canonicalize_query: the call before this one
    imds,     \* instance_creds: the exchange with the metadata service
    calls     \* the signing calls that run concurrently

\* the variables of the single signing call
signing == <<pc, op, auth, cur_date, pre, req0, req, url0, cur_url, args, result, tr, prev>>

vars == <<pc, op, auth, cur_date, pre, req0, req, url0, cur_url, args, result, tr, prev,
          imds, calls>>

\* ------------------------------------------------------------------------
\* Bounds of the model
\* ------------------------------------------------------------------------

\* longest run of free characters after the leading "/" of a generated path
MaxPathLen == 2
\* most (key, value) pairs in a generated query string
MaxPairs == 2
\* most entries in a generated header collection
MaxHeaders == 3

\* ------------------------------------------------------------------------
\* Characters, byte order, percent encoding
\* ------------------------------------------------------------------------

None == "<none>"

\* the printable ASCII characters in byte order: 0x20..0x5F and 0x61..0x7E
\* (0x60, the backquote, cannot be written in a TLA+ string and is left out)
AsciiLow ==
    " !\"#$%&'()*+,-./0123456789:;<=>?@ABCDEFGHIJKLMNOPQRSTUVWXYZ[\\]^_"

AsciiHigh == "abcdefghijklmnopqrstuvwxyz{|}~"

CharAt(s, i) == SubSeq(s, i, i)

Printable ==
    { CharAt(AsciiLow, i) : i \in 1..Len(AsciiLow) }
    \cup { CharAt(AsciiHigh, i) : i \in 1..Len(AsciiHigh) }

IsPrintable(c) == c \in Printable

\* byte value of every printable ASCII character, of the tab and of the
\* line feed
ByteOf ==
    [ c \in Printable \cup {"\t", "\n"} |->
        IF c = "\t" THEN 9
        ELSE IF c = "\n" THEN 10
        ELSE IF \E i \in 1..Len(AsciiLow) : CharAt(AsciiLow, i) = c
        THEN 31 + (CHOOSE i \in 1..Len(AsciiLow) : CharAt(AsciiLow, i) = c)
        ELSE 96 + (CHOOSE i \in 1..Len(AsciiHigh) : CharAt(AsciiHigh, i) = c) ]

CharCode(c) == ByteOf[c]

CharOfCode(n) ==
    IF n = 9 THEN "\t"
    ELSE IF n = 10 THEN "\n"
    ELSE IF n <= 95 THEN CharAt(AsciiLow, n - 31)
    ELSE CharAt(AsciiHigh, n - 96)

\* the concatenation of the strings pieces[lo], ..., pieces[hi]
RECURSIVE Concat(_, _, _)
Concat(pieces, lo, hi) ==
    IF lo > hi THEN ""
    ELSE IF lo = hi THEN pieces[lo]
    ELSE LET mid == (lo + hi) \div 2
         IN  Concat(pieces, lo, mid) \o Concat(pieces, mid + 1, hi)

\* the string whose characters are each replaced by the string F gives
MapChars(F(_), s) == Concat([i \in 1..Len(s) |-> F(CharAt(s, i))], 1, Len(s))

HexDigits == "0123456789abcdef"

HexDigitsUpper == "0123456789ABCDEF"

Alnum ==
    { c \in Printable : \/ (48 <= ByteOf[c] /\ ByteOf[c] <= 57)
                        \/ (65 <= ByteOf[c] /\ ByteOf[c] <= 90)
                        \/ (97 <= ByteOf[c] /\ ByteOf[c] <= 122) }

IsAlnum(c) == c \in Alnum

\* STRICT_ENCODE_SET: everything but A-Z a-z 0-9 - . _ ~ is escaped
InStrictEncodeSet(c) == ~(IsAlnum(c) \/ c \in {"-", ".", "_", "~"})

\* STRICT_PATH_ENCODE_SET: STRICT_ENCODE_SET without "/"
InStrictPathEncodeSet(c) == InStrictEncodeSet(c) /\ c # "/"

STRICT_ENCODE_SET == "strict"

STRICT_PATH_ENCODE_SET == "strict_path"

InEncodeSet(set, c) ==
    IF set = STRICT_ENCODE_SET THEN InStrictEncodeSet(c) ELSE InStrictPathEncodeSet(c)

\* %XX of one byte, upper case hex as percent_encoding writes it
PercentByte(c) ==
    LET n == CharCode(c)
    IN  "%" \o CharAt(HexDigitsUpper, (n \div 16) + 1)
            \o CharAt(HexDigitsUpper, (n % 16) + 1)

utf8_percent_encode(s, set) ==
    MapChars(LAMBDA c : IF InEncodeSet(set, c) THEN PercentByte(c) ELSE c, s)

\* a.cmp(b) on strings: -1, 0, 1 by lexicographic byte order
RECURSIVE StrCmp(_, _)
StrCmp(a, b) ==
    IF a = "" /\ b = "" THEN 0
    ELSE IF a = "" THEN -1
    ELSE IF b = "" THEN 1
    ELSE IF CharCode(Head(a)) < CharCode(Head(b)) THEN -1
    ELSE IF CharCode(Head(a)) > CharCode(Head(b)) THEN 1
    ELSE StrCmp(Tail(a), Tail(b))

\* ------------------------------------------------------------------------
\* Url: the query string and its (key, value) pairs
\* ------------------------------------------------------------------------

HexValue ==
    [ c \in { CharAt(HexDigits, i) : i \in 1..16 } \cup { CharAt(HexDigitsUpper, i) : i \in 1..16 } |->
        IF \E i \in 1..16 : CharAt(HexDigits, i) = c
        THEN (CHOOSE i \in 1..16 : CharAt(HexDigits, i) = c) - 1
        ELSE (CHOOSE i \in 1..16 : CharAt(HexDigitsUpper, i) = c) - 1 ]

IsHexDigit(c) == c \in DOMAIN HexValue

HexVal(c) == HexValue[c]

\* whether a %XX escape starts at position i of s
StartsEscape(s, i) ==
    /\ 1 <= i /\ i + 2 <= Len(s)
    /\ CharAt(s, i) = "%"
    /\ IsHexDigit(CharAt(s, i + 1))
    /\ IsHexDigit(CharAt(s, i + 2))

\* form_urlencoded decoding of one name or value: "+" is a space, %XX is the
\* byte XX, a "%" not followed by two hex digits stays as it is
FormDecode(s) ==
    Concat([ i \in 1..Len(s) |->
               IF StartsEscape(s, i)
               THEN CharOfCode(16 * HexVal(CharAt(s, i + 1)) + HexVal(CharAt(s, i + 2)))
               ELSE IF StartsEscape(s, i - 1) \/ StartsEscape(s, i - 2) THEN ""
               ELSE IF CharAt(s, i) = "+" THEN " "
               ELSE CharAt(s, i) ],
           1, Len(s))

\* form_urlencoded encoding (Url::query_pairs_mut().append_pair): alphanumerics
\* and * - . _ stay, a space is "+", every other byte is %XX
FormEncode(s) ==
    MapChars(LAMBDA c : IF IsAlnum(c) \/ c \in {"*", "-", ".", "_"} THEN c
                        ELSE IF c = " " THEN "+"
                        ELSE PercentByte(c), s)

\* index of the first c in s, 0 when there is none
IndexOf(s, c) ==
    LET at == { i \in 1..Len(s) : CharAt(s, i) = c }
    IN  IF at = {} THEN 0 ELSE CHOOSE i \in at : \A j \in at : i <= j

\* the pieces of s between the separators c
RECURSIVE Split(_, _)
Split(s, c) ==
    LET i == IndexOf(s, c)
    IN  IF i = 0 THEN <<s>>
        ELSE <<SubSeq(s, 1, i - 1)>> \o Split(SubSeq(s, i + 1, Len(s)), c)

ParsePair(seg) ==
    LET i == IndexOf(seg, "=")
    IN  IF i = 0 THEN <<FormDecode(seg), "">>
        ELSE <<FormDecode(SubSeq(seg, 1, i - 1)),
               FormDecode(SubSeq(seg, i + 1, Len(seg)))>>

RECURSIVE ParseSegments(_)
ParseSegments(segs) ==
    IF segs = <<>> THEN <<>>
    ELSE (IF Head(segs) = "" THEN <<>> ELSE <<ParsePair(Head(segs))>>)
         \o ParseSegments(Tail(segs))

\* Url::query_pairs: the decoded pairs of the query, in their order in the URL
query_pairs(url) ==
    IF url.query = None THEN <<>> ELSE ParseSegments(Split(url.query, "&"))

\* Url::query_pairs_mut().append_pair(k, v)
append_pair(url, k, v) ==
    LET kv == FormEncode(k) \o "=" \o FormEncode(v)
    IN  [url EXCEPT !.query =
            IF url.query = None \/ url.query = "" THEN kv
            ELSE url.query \o "&" \o kv]

\* ------------------------------------------------------------------------
\* canonicalize_query
\* ------------------------------------------------------------------------

\* all orders of the elements of a sequence
Reorderings(seq) ==
    LET n == Len(seq)
    IN  { [i \in 1..n |-> seq[f[i]]] :
            f \in { g \in [1..n -> 1..n] : \A i, j \in 1..n : i # j => g[i] # g[j] } }

KeysOf(pairs) == { pairs[i][1] : i \in 1..Len(pairs) }

MinKey(keys) == CHOOSE k \in keys : \A k2 \in keys : StrCmp(k, k2) <= 0

WithKey(pairs, k) == SelectSeq(pairs, LAMBDA p : p[1] = k)

WithoutKey(pairs, k) == SelectSeq(pairs, LAMBDA p : p[1] # k)

\* sort_unstable_by_key that leaves the pairs as they are (C6 must tell the
\* two apart)
sort_unstable_by_key_NoSort(pairs) == { pairs }

\* slice::sort_unstable_by(|(a, _), (b, _)| a.cmp(b)): the pairs in ascending
\* key order; the sort is unstable, so pairs with equal keys come out in any
\* order.  The set of the results the sort may produce.
RECURSIVE sort_unstable_by_key(_)
sort_unstable_by_key(pairs) ==
    IF pairs = <<>> THEN { <<>> }
    ELSE LET k == MinKey(KeysOf(pairs))
         IN  { g \o r : g \in Reorderings(WithKey(pairs, k)),
                        r \in sort_unstable_by_key(WithoutKey(pairs, k)) }

RECURSIVE EncodePairs(_, _)
EncodePairs(pairs, first) ==
    IF pairs = <<>> THEN ""
    ELSE (IF first THEN "" ELSE "&")
         \o utf8_percent_encode(Head(pairs)[1], STRICT_ENCODE_SET)
         \o "="
         \o utf8_percent_encode(Head(pairs)[2], STRICT_ENCODE_SET)
         \o EncodePairs(Tail(pairs), FALSE)

\* canonicalize_query(url): the set of strings it may return
canonicalize_query(url) ==
    IF url.query = None \/ url.query = "" THEN { "" }
    ELSE { EncodePairs(headers, TRUE) : headers \in sort_unstable_by_key(query_pairs(url)) }

\* ------------------------------------------------------------------------
\* HeaderMap: a sequence of <<name, value>> in iteration order (the entries
\* in order of first insertion, the values of one name next to each other in
\* the order they were appended).  A HeaderName is lower case.
\* ------------------------------------------------------------------------

ToLowerChar(c) ==
    IF IsPrintable(c) /\ 65 <= CharCode(c) /\ CharCode(c) <= 90
    THEN CharOfCode(CharCode(c) + 32)
    ELSE c

\* HeaderName::from_bytes: the name in lower case
HeaderNameOf(raw) == MapChars(ToLowerChar, raw)

\* HeaderValue::from_str accepts visible ASCII, space and tab only
IsValidHeaderValue(s) ==
    \A i \in 1..Len(s) : IsPrintable(CharAt(s, i)) \/ CharAt(s, i) = "\t"

HasHeader(hm, name) == \E i \in 1..Len(hm) : hm[i][1] = name

\* HeaderMap::get: the first value of the name
GetHeader(hm, name) ==
    IF HasHeader(hm, name)
    THEN hm[CHOOSE i \in 1..Len(hm) : hm[i][1] = name /\ \A j \in 1..(i - 1) : hm[j][1] # name][2]
    ELSE None

\* HeaderMap::get_all: every value of the name, in order
GetAll(hm, name) ==
    LET sel == SelectSeq(hm, LAMBDA e : e[1] = name)
    IN  [i \in 1..Len(sel) |-> sel[i][2]]

\* HeaderMap::insert: the name's values are replaced by the one value; a new
\* name goes to the end
HeaderInsert(hm, name, value) ==
    IF HasHeader(hm, name)
    THEN LET first == CHOOSE i \in 1..Len(hm) :
                        hm[i][1] = name /\ \A j \in 1..(i - 1) : hm[j][1] # name
         IN  SubSeq(hm, 1, first - 1) \o <<<<name, value>>>>
             \o SelectSeq(SubSeq(hm, first + 1, Len(hm)), LAMBDA e : e[1] # name)
    ELSE Append(hm, <<name, value>>)

\* HeaderMap::append: the value is added after the name's other values
HeaderAppend(hm, name, value) ==
    IF HasHeader(hm, name)
    THEN LET last == CHOOSE i \in 1..Len(hm) :
                        hm[i][1] = name /\ \A j \in (i + 1)..Len(hm) : hm[j][1] # name
         IN  SubSeq(hm, 1, last) \o <<<<name, value>>>> \o SubSeq(hm, last + 1, Len(hm))
    ELSE Append(hm, <<name, value>>)

\* a HeaderMap built by appending raw (name, value) pairs in order
RECURSIVE HeaderMapOf(_)
HeaderMapOf(raw) ==
    IF raw = <<>> THEN <<>>
    ELSE LET n == Len(raw)
         IN  HeaderAppend(HeaderMapOf(SubSeq(raw, 1, n - 1)),
                          HeaderNameOf(raw[n][1]), raw[n][2])

\* ------------------------------------------------------------------------
\* canonicalize_headers
\* ------------------------------------------------------------------------

IsWhitespace(c) == c \in {" ", "\t", "\n", "\r"}

RECURSIVE TrimStart(_)
TrimStart(s) ==
    IF s = "" THEN ""
    ELSE IF IsWhitespace(Head(s)) THEN TrimStart(Tail(s))
    ELSE s

RECURSIVE TrimEnd(_)
TrimEnd(s) ==
    IF s = "" THEN ""
    ELSE IF IsWhitespace(CharAt(s, Len(s))) THEN TrimEnd(SubSeq(s, 1, Len(s) - 1))
    ELSE s

\* str::trim
Trim(s) == TrimEnd(TrimStart(s))

\* ExcludedHeaders without authorization (C14 must tell the two apart)
ExcludedHeaders_NoAuthorization == {"content-length", "user-agent"}

\* ExcludedHeaders without user-agent (C4 must tell the two apart)
ExcludedHeaders_NoUserAgent == {"authorization", "content-length"}

ExcludedHeaders == {"authorization", "content-length", "user-agent"}

\* the loop of lines 326-337: the BTreeMap from name to its values, in
\* iteration order, of the headers that are not excluded
RECURSIVE CollectHeaders(_, _)
CollectHeaders(hm, headers) ==
    IF hm = <<>> THEN headers
    ELSE LET key == Head(hm)[1]
             value == Head(hm)[2]
         IN  IF key \in ExcludedHeaders
             THEN CollectHeaders(Tail(hm), headers)
             ELSE CollectHeaders(Tail(hm),
                    IF key \in DOMAIN headers
                    THEN [headers EXCEPT ![key] = Append(@, value)]
                    ELSE [k \in DOMAIN headers \cup {key} |->
                            IF k = key THEN <<value>> ELSE headers[k]])

\* the keys of a BTreeMap<&str, _> in iteration order: ascending byte order
RECURSIVE BTreeKeys(_)
BTreeKeys(keys) ==
    IF keys = {} THEN <<>>
    ELSE LET k == MinKey(keys) IN <<k>> \o BTreeKeys(keys \ {k})

RECURSIVE JoinValues(_, _)
JoinValues(values, value_idx) ==
    IF value_idx > Len(values) THEN ""
    ELSE (IF value_idx # 1 THEN "," ELSE "") \o Trim(values[value_idx])
         \o JoinValues(values, value_idx + 1)

\* the loop of lines 343-358, from entry header_idx of names on; the result
\* is <<signed_headers, canonical_headers>>
RECURSIVE RenderHeaders(_, _, _)
RenderHeaders(headers, names, header_idx) ==
    IF header_idx > Len(names) THEN <<"", "">>
    ELSE LET name == names[header_idx]
             rest == RenderHeaders(headers, names, header_idx + 1)
         IN  << (IF header_idx # 1 THEN ";" ELSE "") \o name \o rest[1],
                name \o ":" \o JoinValues(headers[name], 1) \o "\n" \o rest[2] >>

EmptyMap == [k \in {} |-> <<>>]

\* canonicalize_headers(header_map) = <<signed_headers, canonical_headers>>
canonicalize_headers(header_map) ==
    LET headers == CollectHeaders(header_map, EmptyMap)
    IN  RenderHeaders(headers, BTreeKeys(DOMAIN headers), 1)

\* ------------------------------------------------------------------------
\* Digests and the credential's signing chain
\* ------------------------------------------------------------------------

EMPTY_SHA256_HASH ==
    "e3b0c44298fc1c149afbf4c8996fb92427ae41e4649b934ca495991b7852b855"

UNSIGNED_PAYLOAD == "UNSIGNED-PAYLOAD"

STREAMING_PAYLOAD == "STREAMING-AWS4-HMAC-SHA256-PAYLOAD"

ALGORITHM == "AWS4-HMAC-SHA256"

DATE_HEADER == "x-amz-date"

HASH_HEADER == "x-amz-content-sha256"

TOKEN_HEADER == "x-amz-security-token"

AUTHORIZATION == "authorization"

\* hex_encode of a sequence of bytes: two lower case hex digits per byte
RECURSIVE hex_encode(_)
hex_encode(bytes) ==
    IF bytes = <<>> THEN ""
    ELSE CharAt(HexDigits, (Head(bytes) \div 16) + 1)
         \o CharAt(HexDigits, (Head(bytes) % 16) + 1)
         \o hex_encode(Tail(bytes))

\* the characters of a hashed text written so that a symbolic digest is a
\* line of visible ASCII, as the hex digits of the real one are
Visible(s) ==
    MapChars(LAMBDA c : IF c = "\n" THEN "\\n"
                        ELSE IF c = "\\" THEN "\\\\"
                        ELSE c, s)

\* hex_digest: the hex SHA-256 of the bytes; the digest of no bytes is the
\* constant, any other digest is the term sha256{bytes}
hex_digest(bytes) ==
    IF bytes = "" THEN EMPTY_SHA256_HASH ELSE "sha256{" \o Visible(bytes) \o "}"

\* the tag of HMAC-SHA256, as a term
hmac_sha256(secret, bytes) == "hmac{" \o secret \o "," \o bytes \o "}"

\* chrono's date.format("%Y%m%d") and date.format("%Y%m%dT%H%M%SZ")
FormatDate(date) == date.ymd

FormatDateTime(date) == date.ymd \o "T" \o date.hms \o "Z"

\* AwsCredential::sign
credential_sign(credential, to_sign, date, region, service) ==
    LET date_string  == FormatDate(date)
        date_hmac    == hmac_sha256("AWS4" \o credential.secret_key, date_string)
        region_hmac  == hmac_sha256(date_hmac, region)
        service_hmac == hmac_sha256(region_hmac, service)
        signing_hmac == hmac_sha256(service_hmac, "aws4_request")
    IN  "hex{" \o Visible(hmac_sha256(signing_hmac, to_sign)) \o "}"

\* ------------------------------------------------------------------------
\* http::Uri and url::Url
\* ------------------------------------------------------------------------

\* Authority::as_str: the whole authority, the userinfo included
AuthorityStr(authority) ==
    (IF authority.userinfo = None THEN "" ELSE authority.userinfo \o "@")
    \o authority.host
    \o (IF authority.port = None THEN "" ELSE ":" \o authority.port)

\* the host and port of a URI, as Uri::host and Uri::port give them
HostPort(authority) ==
    authority.host \o (IF authority.port = None THEN "" ELSE ":" \o authority.port)

RECURSIVE DecimalValue(_, _)
DecimalValue(digits, acc) ==
    IF digits = "" THEN acc
    ELSE DecimalValue(Tail(digits), 10 * acc + (CharCode(Head(digits)) - 48))

\* the path as Url::parse keeps it: an empty path is "/", and the characters
\* of the url crate's path set that a Uri path may hold are escaped
UrlPath(path) ==
    MapChars(LAMBDA c : IF c \in {"\"", "<", ">", "{", "}"} THEN PercentByte(c) ELSE c,
             path)

\* an absent authority, an absent Url (a ParseError), an absent date
NoAuthority == [userinfo |-> None, host |-> None, port |-> None]

NoUrl == [scheme |-> None, host |-> None, port |-> None, path |-> None, query |-> None]

NoDate == [ymd |-> None, hms |-> None]

\* Url::parse(&request.uri().to_string()): the Url, or NoUrl for a ParseError
\* (a URI without a scheme is relative, a port above 65535 is invalid)
UrlParse(uri) ==
    IF uri.scheme = None \/ uri.authority = NoAuthority THEN NoUrl
    ELSE IF uri.authority.port # None /\ DecimalValue(uri.authority.port, 0) > 65535
    THEN NoUrl
    ELSE [ scheme |-> uri.scheme,
           host   |-> uri.authority.host,
           port   |-> uri.authority.port,
           path   |-> IF uri.path = "" THEN "/" ELSE UrlPath(uri.path),
           query  |-> uri.query ]

\* &url[Position::BeforeHost..Position::AfterPort]
UrlHostPort(url) == url.host \o (IF url.port = None THEN "" ELSE ":" \o url.port)

\* ------------------------------------------------------------------------
\* AwsAuthorizer: scope and string_to_sign
\* ------------------------------------------------------------------------

scope(a, date) ==
    FormatDate(date) \o "/" \o a.region \o "/" \o a.service \o "/aws4_request"

\* canonical_uri that encodes the path for every service, "s3" too (C10 must
\* tell the two apart)
canonical_uri_AlwaysEncode(service, url) ==
    utf8_percent_encode(url.path, STRICT_PATH_ENCODE_SET)

\* lines 278-281: the path as it is for "s3", percent-encoded once more for
\* every other service
canonical_uri(service, url) ==
    IF service = "s3" THEN url.path
    ELSE utf8_percent_encode(url.path, STRICT_PATH_ENCODE_SET)

canonical_request(method, c_uri, canonical_query, canonical_headers, signed_headers, digest) ==
    method \o "\n" \o c_uri \o "\n" \o canonical_query \o "\n"
    \o canonical_headers \o "\n" \o signed_headers \o "\n" \o digest

\* string_to_sign; canonical_query is the string canonicalize_query(url) gave
string_to_sign(a, date, scope_, method, url, canonical_headers, signed_headers, digest, canonical_query) ==
    LET hashed_canonical_request ==
            hex_digest(canonical_request(method, canonical_uri(a.service, url),
                                         canonical_query, canonical_headers,
                                         signed_headers, digest))
    IN  ALGORITHM \o "\n" \o FormatDateTime(date) \o "\n" \o scope_ \o "\n"
        \o hashed_canonical_request

\* ------------------------------------------------------------------------
\* Request bodies
\* ------------------------------------------------------------------------

\* size_hint().exact(): the exact length, or NoExact when the hint has none
NoExact == -1

DataFrame(bytes) == [kind |-> "data", data |-> bytes]

TrailersFrame == [kind |-> "trailers", data |-> ""]

ErrorFrame == [kind |-> "error", data |-> ""]

\* the body after frame() has taken its next frame
BodyAfterFrame(body) ==
    IF body.frames = <<>> THEN body
    ELSE [ exact  |-> IF body.exact = NoExact THEN NoExact
                      ELSE body.exact - Len(Head(body.frames).data),
           frames |-> Tail(body.frames) ]

\* ------------------------------------------------------------------------
\* AwsAuthorizer::authorize
\* ------------------------------------------------------------------------

Ok == "Ok"

InvalidHeaderValue == "InvalidHeaderValue"

InvalidUrl == "InvalidUrl"

NoHost == "NoHost"

BodyFrameError == "BodyFrameError"

BodyNoFrame == "BodyNoFrame"

DateOf(a, now) == IF a.date = NoDate THEN now ELSE a.date

\* TokenHeaderOf that ignores the authorizer's token_header (C3 must tell
\* the two apart)
TokenHeaderOf_Default(a) == TOKEN_HEADER

TokenHeaderOf(a) == IF a.token_header = None THEN TOKEN_HEADER ELSE a.token_header

WithHeader(request, name, value) ==
    [request EXCEPT !.headers = HeaderInsert(@, name, value)]

\* what a call has computed so far; None where it has not got to
NoTrace ==
    [ step |-> None, policy |-> None, digest |-> None,
      signed_headers |-> None, canonical_headers |-> None,
      canonical_uri |-> None, canonical_query |-> None,
      canonical_request |-> None, string_to_sign |-> None, signature |-> None ]

\* lines 134-151: the token, host and x-amz-date headers.  The result is the
\* request and the error of the step that failed (Ok when none did)
AuthorizeHead(a, request, date) ==
    LET token == a.credential.token
    IN  IF token # None /\ ~IsValidHeaderValue(token)
        THEN [request |-> request, err |-> InvalidHeaderValue, step |-> "token"]
        ELSE
        LET r1 == IF token # None
                  THEN WithHeader(request, TokenHeaderOf(a), token)
                  ELSE request
        IN  IF r1.uri.authority = NoAuthority
            THEN [request |-> r1, err |-> NoHost, step |-> "host"]
            ELSE
            LET host == AuthorityStr(r1.uri.authority)
            IN  IF ~IsValidHeaderValue(host)
                THEN [request |-> r1, err |-> InvalidHeaderValue, step |-> "host"]
                ELSE
                LET r2 == WithHeader(r1, "host", host)
                    date_str == FormatDateTime(date)
                IN  IF ~IsValidHeaderValue(date_str)
                    THEN [request |-> r2, err |-> InvalidHeaderValue, step |-> "date"]
                    ELSE [request |-> WithHeader(r2, DATE_HEADER, date_str),
                          err |-> Ok, step |-> None]

\* DigestPolicy with the first two tests exchanged: a pre-calculated digest
\* is used even when sign_payload is false (C1 must tell the two apart)
DigestPolicy_PreFirst(a, pre_calculated_digest, body) ==
    IF pre_calculated_digest.some THEN "precalculated"
    ELSE IF ~a.sign_payload THEN "unsigned"
    ELSE IF body.exact # NoExact
         THEN (IF body.exact = 0 THEN "empty" ELSE "frame")
    ELSE "streaming"

\* lines 153-176: which arm of the match gives the digest
DigestPolicy(a, pre_calculated_digest, body) ==
    IF ~a.sign_payload THEN "unsigned"
    ELSE IF pre_calculated_digest.some THEN "precalculated"
    ELSE IF body.exact # NoExact
         THEN (IF body.exact = 0 THEN "empty" ELSE "frame")
    ELSE "streaming"

\* DigestOf with the arm of the empty body giving the streaming sentinel
\* (C2 must tell the two apart)
DigestOf_EmptyStreams(policy, pre_calculated_digest) ==
    CASE policy = "unsigned"      -> UNSIGNED_PAYLOAD
      [] policy = "precalculated" -> hex_encode(pre_calculated_digest.bytes)
      [] policy = "empty"         -> STREAMING_PAYLOAD
      [] policy = "streaming"     -> STREAMING_PAYLOAD

\* the digest of the arms that do not read the body
DigestOf(policy, pre_calculated_digest) ==
    CASE policy = "unsigned"      -> UNSIGNED_PAYLOAD
      [] policy = "precalculated" -> hex_encode(pre_calculated_digest.bytes)
      [] policy = "empty"         -> EMPTY_SHA256_HASH
      [] policy = "streaming"     -> STREAMING_PAYLOAD

\* lines 178-211: from the digest to the Authorization header.  The result
\* is the request, the error (Ok when none) and what was computed
AuthorizeTail(a, request, date, policy, digest, canonical_query) ==
    LET t0 == [NoTrace EXCEPT !.policy = policy, !.digest = digest]
    IN  IF ~IsValidHeaderValue(digest)
        THEN [request |-> request, err |-> InvalidHeaderValue,
              tr |-> [t0 EXCEPT !.step = "digest"]]
        ELSE
        LET r1 == WithHeader(request, HASH_HEADER, digest)
            ch == canonicalize_headers(r1.headers)
            signed_headers == ch[1]
            canonical_headers == ch[2]
            scope_ == scope(a, date)
            url == UrlParse(r1.uri)
            t1 == [t0 EXCEPT !.signed_headers = signed_headers,
                             !.canonical_headers = canonical_headers]
        IN  IF url = NoUrl
            THEN [request |-> r1, err |-> InvalidUrl,
                  tr |-> [t1 EXCEPT !.step = "authorization"]]
            ELSE
            LET sts == string_to_sign(a, date, scope_, r1.method, url,
                                      canonical_headers, signed_headers, digest,
                                      canonical_query)
                signature == credential_sign(a.credential, sts, date, a.region, a.service)
                authorisation ==
                    ALGORITHM \o " Credential=" \o a.credential.key_id \o "/" \o scope_
                    \o ", SignedHeaders=" \o signed_headers
                    \o ", Signature=" \o signature
                t2 == [t1 EXCEPT !.canonical_uri = canonical_uri(a.service, url),
                                 !.canonical_query = canonical_query,
                                 !.canonical_request =
                                     canonical_request(r1.method,
                                         canonical_uri(a.service, url), canonical_query,
                                         canonical_headers, signed_headers, digest),
                                 !.string_to_sign = sts,
                                 !.signature = signature]
            IN  IF ~IsValidHeaderValue(authorisation)
                THEN [request |-> r1, err |-> InvalidHeaderValue,
                      tr |-> [t2 EXCEPT !.step = "authorization"]]
                ELSE [request |-> WithHeader(r1, AUTHORIZATION, authorisation),
                      err |-> Ok, tr |-> t2]

\* the strings canonicalize_query may give for the request's URL
CanonicalQueriesOf(uri) ==
    IF UrlParse(uri) = NoUrl THEN { "" } ELSE canonicalize_query(UrlParse(uri))

\* ------------------------------------------------------------------------
\* The inputs of the model
\* ------------------------------------------------------------------------

NoPre == [some |-> FALSE, bytes |-> <<>>]

NoAuth ==
    [ date |-> NoDate,
      credential |-> [key_id |-> None, secret_key |-> None, token |-> None],
      service |-> None, region |-> None, token_header |-> None,
      sign_payload |-> FALSE ]

NoRequest ==
    [ method |-> None,
      uri |-> [scheme |-> None, authority |-> NoAuthority, path |-> None, query |-> None],
      headers |-> <<>>,
      body |-> [exact |-> NoExact, frames |-> <<>>] ]

NoArgs ==
    [method |-> None, expires_in |-> [secs |-> 0, nanos |-> 0], raw |-> <<>>, headers |-> <<>>]

NoCall == [url |-> NoUrl, ret |-> None]

\* a token or a key id with a line feed is no header value
Credentials ==
    { c \in [ key_id     : {"AKIDEXAMPLE", "AKID\nEXAMPLE"},
              secret_key : {"wJalrXUtnFEMI"},
              token      : {None, "sessiontoken", "session\ntoken"} ] :
        c.key_id # "AKIDEXAMPLE" => c.token = None }

FixedDate == [ymd |-> "20220806", hms |-> "180134"]

\* what Utc::now() may give
Clock == { [ymd |-> "20130524", hms |-> "000000"] }

Authorizers ==
    { a \in [ date         : {NoDate, FixedDate},
              credential   : Credentials,
              service      : {"s3", "ec2"},
              region       : {"us-east-1"},
              token_header : {None, "x-amz-s3session-token"},
              sign_payload : BOOLEAN ] :
        a.credential.token = None => a.token_header = None }

Uris ==
    { [ scheme |-> "https",
        authority |-> [userinfo |-> None, host |-> "ec2.amazon.com", port |-> None],
        path |-> "/", query |-> None ],
      [ scheme |-> "http",
        authority |-> [userinfo |-> None, host |-> "localhost", port |-> "9000"],
        path |-> "/tsm-schemas", query |-> "prefix=&delimiter=%2F" ],
      [ scheme |-> "http",
        authority |-> [userinfo |-> "user:pw", host |-> "localhost", port |-> "9000"],
        path |-> "/a%20b", query |-> None ],
      [ scheme |-> "http",
        authority |-> [userinfo |-> None, host |-> "localhost", port |-> "99999"],
        path |-> "/", query |-> None ],
      [ scheme |-> None, authority |-> NoAuthority, path |-> "/tsm-schemas", query |-> None ] }

HeaderMaps ==
    { <<>>,
      HeaderMapOf(<< <<"Host", "old.example">>, <<"User-Agent", "ua/1">> >>),
      HeaderMapOf(<< <<"x-meta", " v1 ">>, <<"Content-Length", "5">>, <<"X-Meta", "v2">> >>) }

Bodies ==
    { [exact |-> 0, frames |-> <<>>],
      [exact |-> 5, frames |-> <<DataFrame("hello")>>],
      [exact |-> 5, frames |-> <<DataFrame("he"), DataFrame("llo")>>],
      [exact |-> NoExact, frames |-> <<DataFrame("he"), DataFrame("llo")>>],
      [exact |-> 5, frames |-> <<>>],
      [exact |-> 5, frames |-> <<ErrorFrame>>],
      [exact |-> 5, frames |-> <<TrailersFrame>>] }

Requests ==
    { r \in [ method : {"GET", "PUT"}, uri : Uris, headers : HeaderMaps, body : Bodies ] :
        r.method = "GET" <=> r.body.frames = <<>> }

PreDigests == { NoPre, [some |-> TRUE, bytes |-> <<1, 171>>] }

\* the Urls to presign, with and without a port and a query
SignUrls ==
    { [ scheme |-> "https", host |-> "examplebucket.s3.amazonaws.com", port |-> None,
        path |-> "/test.txt", query |-> None ],
      [ scheme |-> "http", host |-> "localhost", port |-> "9000",
        path |-> "/a%20b", query |-> "b=2&a=%2F" ],
      [ scheme |-> "http", host |-> "localhost", port |-> "9000",
        path |-> "/", query |-> "k=2&k=1" ] }

\* Durations: whole seconds and a rest in nanoseconds
Durations ==
    { [secs |-> 86400, nanos |-> 0], [secs |-> 1, nanos |-> 500000000],
      [secs |-> 0, nanos |-> 999999999] }

\* an Url with the given raw query and nothing else of interest
UrlWithQuery(q) ==
    [scheme |-> "https", host |-> "h", port |-> None, path |-> "/", query |-> q]

QueryKeys == {"a", "B"}

QueryValues == {"1", "/"}

\* the sequences of at most n elements of S
SeqsUpTo(S, n) == UNION { [1..k -> S] : k \in 0..n }

RECURSIVE SerializePairs(_)
SerializePairs(pairs) ==
    IF pairs = <<>> THEN ""
    ELSE FormEncode(Head(pairs)[1]) \o "=" \o FormEncode(Head(pairs)[2])
         \o (IF Len(pairs) > 1 THEN "&" ELSE "")
         \o SerializePairs(Tail(pairs))

\* the query strings: every sequence of at most MaxPairs pairs as an Url
\* serializes it, no query at all, and some that Url::parse lets through
QueryStrings ==
    { SerializePairs(ps) : ps \in SeqsUpTo(QueryKeys \X QueryValues, MaxPairs) }
    \cup { None, "&", "a", "a=1&&B=%2f", "a=%2F&B=1&a=1" }

QueryUrls == { UrlWithQuery(q) : q \in QueryStrings }

RawHeaderNames == {"Host", "x-b", "X-B", "User-Agent", "AUTHORIZATION", "content-length"}

RawHeaderValues == {" v1\t", "v2"}

\* the entries of every header collection of at most MaxHeaders entries
RawHeaderLists == SeqsUpTo(RawHeaderNames \X RawHeaderValues, MaxHeaders)

PathChars == {"a", "/", "%", "~", "+"}

RECURSIVE Join(_)
Join(strs) == IF strs = <<>> THEN "" ELSE Head(strs) \o Join(Tail(strs))

\* the paths an Url may have: "/" and at most MaxPathLen characters after
\* it, and one with a percent escape
Paths ==
    { "/" \o Join(cs) : cs \in SeqsUpTo(PathChars, MaxPathLen) } \cup {"/a%20b/c.txt"}

Services == {"s3", "ec2", "S3"}

\* ------------------------------------------------------------------------
\* instance_creds: the exchange with the instance metadata service
\* ------------------------------------------------------------------------

CREDENTIALS_PATH == "latest/meta-data/iam/security-credentials"

AWS_EC2_METADATA_TOKEN_HEADER == "X-aws-ec2-metadata-token"

\* StatusCode::OK and StatusCode::FORBIDDEN
StatusOK == "200 OK"

StatusFORBIDDEN == "403 Forbidden"

\* a body whose bytes are not UTF-8
NonUtf8 == "<bytes that are not UTF-8>"

\* what client.send(request).await and response.collect().await give: an
\* error of the transport, or a response with its status, whose body is
\* collected whole or fails while it is read
NoResponse == [send_err |-> FALSE, status |-> None, body |-> None, body_err |-> FALSE]

SendError == [NoResponse EXCEPT !.send_err = TRUE]

Response(status, body) == [NoResponse EXCEPT !.status = status, !.body = body]

BrokenResponse(status) == [NoResponse EXCEPT !.status = status, !.body_err = TRUE]

\* what instance_creds returns, or the panic it ends in
ErrBuilder == "Err(HttpError) from Request::builder"

ErrSend == "Err(HttpError) from client.send"

ErrCollect == "Err(HttpError) from collect"

ErrInvalidToken == "Err(HttpError::Io(Other, Invalid token))"

PanicFromUtf8 == "panic: String::from_utf8(..).unwrap()"

PanicTodo == "panic: todo!()"

\* Uri::try_from as Request::builder().uri applies it: no blank in an URI
IsValidUri(s) == \A i \in 1..Len(s) : IsPrintable(CharAt(s, i)) /\ CharAt(s, i) # " "

\* lines 422-429: the token request; ok is false when the builder refuses it
TokenRequest(endpoint) ==
    [ method  |-> "PUT",
      uri     |-> endpoint \o "/latest/api/token",
      headers |-> << <<"host", endpoint>>,
                     <<"x-aws-ec2-metadata-token-ttl-seconds", "600">> >>,
      ok      |-> IsValidUri(endpoint \o "/latest/api/token")
                  /\ IsValidHeaderValue(endpoint) ]

\* lines 444-455 and 458: the role request, with the token header when there
\* is a token
RoleRequest(endpoint, token) ==
    LET role_url == endpoint \o "/" \o CREDENTIALS_PATH \o "/"
    IN  [ method  |-> "GET",
          uri     |-> role_url,
          headers |-> << <<"host", endpoint>> >>
                      \o (IF token # None
                          THEN << <<HeaderNameOf(AWS_EC2_METADATA_TOKEN_HEADER), token>> >>
                          ELSE <<>>),
          ok      |-> IsValidUri(role_url) /\ IsValidHeaderValue(endpoint)
                      /\ (token # None => IsValidHeaderValue(token)) ]

\* TokenOutcome that takes a 403 for the fallback whether the caller opted
\* into it or not (C11 must tell the two apart)
TokenOutcome_AlwaysFallback(status, imdsv1_fallback) ==
    IF status = StatusOK THEN "token"
    ELSE IF status = StatusFORBIDDEN THEN "no token"
    ELSE "invalid"

\* lines 433-442: what the status of the token response leads to
TokenOutcome(status, imdsv1_fallback) ==
    IF status = StatusOK THEN "token"
    ELSE IF status = StatusFORBIDDEN /\ imdsv1_fallback THEN "no token"
    ELSE "invalid"

\* the exchange: where it is, its arguments, the requests it has sent in
\* order, the responses it got, the token it holds, what it returned
NoExchange ==
    [ pc |-> "idle", endpoint |-> None, imdsv1_fallback |-> FALSE, sent |-> <<>>,
      token_result |-> NoResponse, role_result |-> NoResponse, token |-> None,
      ret |-> None ]

\* the endpoints, statuses and bodies the exchange is run with
Endpoints == {"http://169.254.169.254", "http://169.254.169.254 "}

Statuses == {StatusOK, "204 No Content", "401 Unauthorized", StatusFORBIDDEN,
             "404 Not Found", "500 Internal Server Error"}

TokenBodies == {"AQAEAHfOtoken", "bad\ntoken", NonUtf8}

RoleBodies == {"my-role", ""}

TokenResponses ==
    {SendError} \cup { BrokenResponse(s) : s \in Statuses }
    \cup { Response(s, b) : s \in Statuses, b \in TokenBodies }

RoleResponses ==
    {SendError} \cup { BrokenResponse(s) : s \in Statuses }
    \cup { Response(s, b) : s \in Statuses, b \in RoleBodies }

\* ------------------------------------------------------------------------
\* Signing calls that share one AwsCredential and run concurrently
\* ------------------------------------------------------------------------

\* the most calls that are in flight at once
MaxCalls == 2

\* a call that is in flight: where it is, its arguments as they were passed
\* and as they are, the date it read, the calls that were suspended when it
\* began and those that had returned when it ended
NoSlot ==
    [ pc |-> "idle", op |-> None, auth |-> NoAuth, pre |-> NoPre,
      request0 |-> NoRequest, request |-> NoRequest,
      url0 |-> NoUrl, url |-> NoUrl, date |-> NoDate, result |-> None,
      began_during |-> {}, ended_after |-> {} ]

\* the shared credential, the clock, the calls
NoCalls ==
    [ credential |-> NoAuth.credential, now |-> NoDate,
      slot |-> [i \in 1..MaxCalls |-> NoSlot] ]

\* the credentials that are shared, the authorizers that borrow them, the
\* requests and the Url they sign
SharedCredentials ==
    { [key_id |-> "AKIDEXAMPLE", secret_key |-> "wJalrXUtnFEMI", token |-> t] :
        t \in {None, "sessiontoken"} }

Borrowers(credential) ==
    { [NoAuth EXCEPT !.credential = credential, !.date = NoDate, !.service = "s3",
                     !.region = "us-east-1", !.sign_payload = TRUE] }

ConcurrentRequests ==
    { [ method |-> "PUT",
        uri |-> [ scheme |-> "http",
                  authority |-> [userinfo |-> None, host |-> "localhost", port |-> "9000"],
                  path |-> "/tsm-schemas", query |-> None ],
        headers |-> <<>>,
        body |-> [exact |-> 5, frames |-> <<DataFrame("hello")>>] ],
      [ method |-> "GET",
        uri |-> [ scheme |-> "https",
                  authority |-> [userinfo |-> None, host |-> "ec2.amazon.com", port |-> None],
                  path |-> "/", query |-> None ],
        headers |-> <<>>,
        body |-> [exact |-> 0, frames |-> <<>>] ] }

ConcurrentUrls ==
    { [ scheme |-> "https", host |-> "examplebucket.s3.amazonaws.com", port |-> None,
        path |-> "/test.txt", query |-> None ] }

\* ------------------------------------------------------------------------
\* The state machine
\* ------------------------------------------------------------------------

Init ==
    /\ pc = "idle"
    /\ op = None
    /\ auth = NoAuth
    /\ cur_date = NoDate
    /\ pre = NoPre
    /\ req0 = NoRequest
    /\ req = NoRequest
    /\ url0 = NoUrl
    /\ cur_url = NoUrl
    /\ args = NoArgs
    /\ result = None
    /\ tr = NoTrace
    /\ prev = NoCall
    /\ imds = NoExchange
    /\ calls = NoCalls

\* authorize(request, pre_calculated_digest) up to its return, or up to the
\* await of body.frame() when the digest is the one of the body
Authorize(a, request, pre_calculated_digest, now) ==
    /\ pc = "idle"
    /\ LET d == DateOf(a, now)
           head == AuthorizeHead(a, request, d)
           policy == DigestPolicy(a, pre_calculated_digest, request.body)
       IN  /\ op' = "authorize"
           /\ auth' = a
           /\ cur_date' = d
           /\ pre' = pre_calculated_digest
           /\ req0' = request
           /\ url0' = NoUrl
           /\ cur_url' = NoUrl
           /\ args' = NoArgs
           /\ prev' = NoCall
           /\ IF head.err # Ok
              THEN /\ pc' = "done"
                   /\ req' = head.request
                   /\ result' = head.err
                   /\ tr' = [NoTrace EXCEPT !.step = head.step]
              ELSE IF policy = "frame"
              THEN /\ pc' = "frame"
                   /\ req' = head.request
                   /\ result' = None
                   /\ tr' = [NoTrace EXCEPT !.policy = policy]
              ELSE \E canonical_query \in CanonicalQueriesOf(head.request.uri) :
                   \E tail \in { AuthorizeTail(a, head.request, d, policy,
                                                DigestOf(policy, pre_calculated_digest),
                                                canonical_query) } :
                         /\ pc' = "done"
                         /\ req' = tail.request
                         /\ result' = tail.err
                         /\ tr' = tail.tr

\* body.frame() completes and authorize runs to its return (lines 161-211)
AuthorizeFrame ==
    /\ pc = "frame"
    /\ UNCHANGED <<imds, calls>>
    /\ UNCHANGED <<op, auth, cur_date, pre, req0, url0, cur_url, args, prev>>
    /\ pc' = "done"
    /\ LET frames == req.body.frames
           taken == [req EXCEPT !.body = BodyAfterFrame(@)]
       IN  IF frames = <<>>
           THEN /\ req' = req
                /\ result' = BodyNoFrame
                /\ tr' = [tr EXCEPT !.step = "digest"]
           ELSE IF Head(frames).kind = "error"
           THEN /\ req' = taken
                /\ result' = BodyFrameError
                /\ tr' = [tr EXCEPT !.step = "digest"]
           ELSE IF Head(frames).kind = "trailers"
           THEN /\ req' = taken
                /\ result' = BodyNoFrame
                /\ tr' = [tr EXCEPT !.step = "digest"]
           ELSE \E canonical_query \in CanonicalQueriesOf(req.uri) :
                \E tail \in { AuthorizeTail(auth, taken, cur_date, "frame",
                                             hex_digest(Head(frames).data),
                                             canonical_query) } :
                      /\ req' = tail.request
                      /\ result' = tail.err
                      /\ tr' = tail.tr

\* Duration::as_secs().to_string()
RECURSIVE DecimalString(_)
DecimalString(n) ==
    IF n < 10 THEN CharAt(HexDigits, n + 1)
    ELSE DecimalString(n \div 10) \o CharAt(HexDigits, (n % 10) + 1)

\* SignAppendParams that appends the session token before the other
\* parameters (C7 must tell the two apart)
SignAppendParams_TokenFirst(a, u, d, expires_in) ==
    LET u0 == IF a.credential.token # None
              THEN append_pair(u, "X-Amz-Security-Token", a.credential.token)
              ELSE u
        u1 == append_pair(u0, "X-Amz-Algorithm", ALGORITHM)
        u2 == append_pair(u1, "X-Amz-Credential", a.credential.key_id \o "/" \o scope(a, d))
        u3 == append_pair(u2, "X-Amz-Date", FormatDateTime(d))
        u4 == append_pair(u3, "X-Amz-Expires", DecimalString(expires_in.secs))
    IN  append_pair(u4, "X-Amz-SignedHeaders", "host")

\* lines 219-234: the query parameters sign appends before it signs
SignAppendParams(a, u, d, expires_in) ==
    LET u1 == append_pair(u, "X-Amz-Algorithm", ALGORITHM)
        u2 == append_pair(u1, "X-Amz-Credential", a.credential.key_id \o "/" \o scope(a, d))
        u3 == append_pair(u2, "X-Amz-Date", FormatDateTime(d))
        u4 == append_pair(u3, "X-Amz-Expires", DecimalString(expires_in.secs))
        u5 == append_pair(u4, "X-Amz-SignedHeaders", "host")
    IN  IF a.credential.token # None
        THEN append_pair(u5, "X-Amz-Security-Token", a.credential.token)
        ELSE u5

\* lines 239-242: the header collection sign canonicalizes
SignHeaders(u) == HeaderInsert(<<>>, "host", UrlHostPort(u))

\* AwsAuthorizer::sign(method, url, expires_in)
Sign(a, method, u, expires_in, now) ==
    /\ pc = "idle"
    /\ \E d \in { DateOf(a, now) } :
       \E u1 \in { SignAppendParams(a, u, d, expires_in) } :
       \E headers \in { SignHeaders(u1) } :
       \E ch \in { canonicalize_headers(headers) } :
       \E canonical_query \in canonicalize_query(u1) :
       \E sts \in { string_to_sign(a, d, scope(a, d), method, u1, ch[2], ch[1],
                                   UNSIGNED_PAYLOAD, canonical_query) } :
       \E signature \in { credential_sign(a.credential, sts, d, a.region, a.service) } :
         /\ pc' = "done"
         /\ op' = "sign"
         /\ auth' = a
         /\ cur_date' = d
         /\ pre' = NoPre
         /\ req0' = NoRequest
         /\ req' = NoRequest
         /\ url0' = u
         /\ cur_url' = append_pair(u1, "X-Amz-Signature", signature)
         /\ args' = [NoArgs EXCEPT !.method = method,
                                    !.expires_in = expires_in,
                                    !.headers = headers]
         /\ result' = Ok
         /\ tr' = [NoTrace EXCEPT !.digest = UNSIGNED_PAYLOAD,
                                  !.signed_headers = ch[1],
                                  !.canonical_headers = ch[2],
                                  !.canonical_uri = canonical_uri(a.service, u1),
                                  !.canonical_query = canonical_query,
                                  !.canonical_request =
                                      canonical_request(method,
                                          canonical_uri(a.service, u1),
                                          canonical_query, ch[2], ch[1],
                                          UNSIGNED_PAYLOAD),
                                  !.string_to_sign = sts,
                                  !.signature = signature]
         /\ prev' = NoCall

\* canonicalize_headers(header_map), of the header collection that holds the
\* raw (name, value) entries appended in this order
CanonicalizeHeaders(raw) ==
    /\ pc = "idle"
    /\ pc' = "done"
    /\ op' = "canonicalize_headers"
    /\ args' = [NoArgs EXCEPT !.raw = raw, !.headers = HeaderMapOf(raw)]
    /\ result' = Ok
    /\ \E ch \in { canonicalize_headers(HeaderMapOf(raw)) } :
         tr' = [NoTrace EXCEPT !.signed_headers = ch[1], !.canonical_headers = ch[2]]
    /\ UNCHANGED <<auth, cur_date, pre, req0, req, url0, cur_url, prev>>

\* canonicalize_query(url); a second call follows a first one, which prev keeps
CanonicalizeQuery(u) ==
    /\ \/ pc = "idle" /\ prev' = NoCall
       \/ /\ pc = "done" /\ op = "canonicalize_query" /\ prev = NoCall
          /\ prev' = [url |-> url0, ret |-> tr.canonical_query]
    /\ \E ret \in canonicalize_query(u) :
         /\ pc' = "done"
         /\ op' = "canonicalize_query"
         /\ url0' = u
         /\ result' = Ok
         /\ tr' = [NoTrace EXCEPT !.canonical_query = ret]
    /\ UNCHANGED <<auth, cur_date, pre, req0, req, cur_url, args>>

\* string_to_sign of a request with no query and the one header host
StringToSign(a, method, u, d) ==
    /\ pc = "idle"
    /\ pc' = "done"
    /\ op' = "string_to_sign"
    /\ auth' = a
    /\ cur_date' = d
    /\ url0' = u
    /\ args' = [NoArgs EXCEPT !.method = method, !.headers = SignHeaders(u)]
    /\ result' = Ok
    /\ \E canonical_query \in canonicalize_query(u) :
         LET ch == canonicalize_headers(SignHeaders(u))
         IN  tr' = [NoTrace EXCEPT
                      !.digest = UNSIGNED_PAYLOAD,
                      !.signed_headers = ch[1],
                      !.canonical_headers = ch[2],
                      !.canonical_uri = canonical_uri(a.service, u),
                      !.canonical_query = canonical_query,
                      !.string_to_sign =
                          string_to_sign(a, d, scope(a, d), method, u, ch[2], ch[1],
                                         UNSIGNED_PAYLOAD, canonical_query)]
    /\ UNCHANGED <<pre, req0, req, cur_url, prev>>

\* what Utc::now() may give when authorize is called once more
LaterClock == { [ymd |-> "20130525", hms |-> "000001"] }

\* authorize is called a second time, with the same authorizer and the same
\* pre_calculated_digest, on the request that a first call has signed and
\* whose body that call has not read; args.headers keeps the headers the
\* first call left
Reauthorize ==
    /\ pc = "done" /\ op = "authorize" /\ result = Ok /\ tr.policy # "frame"
    /\ UNCHANGED <<auth, pre, req0, url0, cur_url, prev, imds, calls>>
    /\ op' = "reauthorize"
    /\ pc' = "done"
    /\ args' = [NoArgs EXCEPT !.headers = req.headers]
    /\ \E now \in Clock \cup LaterClock :
       \E d \in { DateOf(auth, now) } :
       \E head \in { AuthorizeHead(auth, req, d) } :
       \E policy \in { DigestPolicy(auth, pre, req.body) } :
         /\ cur_date' = d
         /\ IF head.err # Ok
            THEN /\ req' = head.request
                 /\ result' = head.err
                 /\ tr' = [NoTrace EXCEPT !.step = head.step]
            ELSE \E canonical_query \in CanonicalQueriesOf(head.request.uri) :
                 \E tail \in { AuthorizeTail(auth, head.request, d, policy,
                                              DigestOf(policy, pre), canonical_query) } :
                       /\ req' = tail.request
                       /\ result' = tail.err
                       /\ tr' = tail.tr

\* the call has returned and the caller has dropped what it was given
Return ==
    /\ pc = "done"
    /\ UNCHANGED <<imds, calls>>
    /\ pc' = "idle"
    /\ op' = None
    /\ auth' = NoAuth
    /\ cur_date' = NoDate
    /\ pre' = NoPre
    /\ req0' = NoRequest
    /\ req' = NoRequest
    /\ url0' = NoUrl
    /\ cur_url' = NoUrl
    /\ args' = NoArgs
    /\ result' = None
    /\ tr' = NoTrace
    /\ prev' = NoCall

\* the calls a caller may make, with the arguments the model draws
AuthorizeCall ==
    /\ pc = "idle"
    /\ UNCHANGED <<imds, calls>>
    /\ \E a \in Authorizers, request \in Requests, p \in PreDigests, now \in Clock :
         Authorize(a, request, p, now)

SignCall ==
    /\ pc = "idle"
    /\ UNCHANGED <<imds, calls>>
    /\ \E a \in Authorizers, method \in {"GET", "PUT"}, u \in SignUrls,
          expires_in \in Durations, now \in Clock :
         Sign(a, method, u, expires_in, now)

CanonicalizeHeadersCall ==
    /\ pc = "idle"
    /\ UNCHANGED <<imds, calls>>
    /\ \E raw \in RawHeaderLists : CanonicalizeHeaders(raw)

CanonicalizeQueryCall ==
    /\ pc = "idle" \/ (pc = "done" /\ op = "canonicalize_query" /\ prev = NoCall)
    /\ UNCHANGED <<imds, calls>>
    /\ \E u \in QueryUrls : CanonicalizeQuery(u)

StringToSignCall ==
    /\ pc = "idle"
    /\ UNCHANGED <<imds, calls>>
    /\ \E service \in Services, path \in Paths :
         StringToSign([NoAuth EXCEPT !.service = service, !.region = "us-east-1"],
                      "GET", [UrlWithQuery(None) EXCEPT !.path = path], FixedDate)

Next ==
    \/ AuthorizeCall
    \/ AuthorizeFrame
    \/ Reauthorize
    \/ SignCall
    \/ CanonicalizeHeadersCall
    \/ CanonicalizeQueryCall
    \/ StringToSignCall
    \/ Return

Spec == Init /\ [][Next]_vars

\* ------------------------------------------------------------------------
\* The exchange as a state machine
\* ------------------------------------------------------------------------

\* instance_creds(client, endpoint, imdsv1_fallback) up to the await of the
\* token response (lines 422-431)
InstanceCreds ==
    /\ imds.pc = "idle"
    /\ \E endpoint \in Endpoints, imdsv1_fallback \in BOOLEAN :
       \E request \in { TokenRequest(endpoint) } :
         imds' = IF request.ok
                 THEN [NoExchange EXCEPT !.pc = "token", !.endpoint = endpoint,
                                         !.imdsv1_fallback = imdsv1_fallback,
                                         !.sent = <<request>>]
                 ELSE [NoExchange EXCEPT !.pc = "done", !.endpoint = endpoint,
                                         !.imdsv1_fallback = imdsv1_fallback,
                                         !.ret = ErrBuilder]
    /\ UNCHANGED signing
    /\ UNCHANGED calls

\* the token response arrives: lines 431-458, up to the await of the role
\* response
TokenResult ==
    /\ imds.pc = "token"
    /\ \E token_result \in TokenResponses :
       \E got \in { [imds EXCEPT !.token_result = token_result] } :
       \E outcome \in { TokenOutcome(token_result.status, imds.imdsv1_fallback) } :
         imds' =
           IF token_result.send_err
           THEN [got EXCEPT !.pc = "done", !.ret = ErrSend]
           ELSE IF outcome = "invalid"
           THEN [got EXCEPT !.pc = "done", !.ret = ErrInvalidToken]
           ELSE IF outcome = "token" /\ token_result.body_err
           THEN [got EXCEPT !.pc = "done", !.ret = ErrCollect]
           ELSE IF outcome = "token" /\ token_result.body = NonUtf8
           THEN [got EXCEPT !.pc = "done", !.ret = PanicFromUtf8]
           ELSE LET token == IF outcome = "token" THEN token_result.body ELSE None
                    role_request == RoleRequest(imds.endpoint, token)
                IN  IF role_request.ok
                    THEN [got EXCEPT !.pc = "role", !.token = token,
                                     !.sent = Append(@, role_request)]
                    ELSE [got EXCEPT !.pc = "done", !.token = token,
                                     !.ret = ErrBuilder]
    /\ UNCHANGED signing
    /\ UNCHANGED calls

\* the role response arrives: lines 457-479.  Its status is not looked at;
\* the body is collected and the function ends in todo!()
RoleResult ==
    /\ imds.pc = "role"
    /\ \E role \in RoleResponses :
         imds' = [imds EXCEPT !.pc = "done",
                              !.role_result = role,
                              !.ret = IF role.send_err THEN ErrSend
                                      ELSE IF role.body_err THEN ErrCollect
                                      ELSE PanicTodo]
    /\ UNCHANGED signing
    /\ UNCHANGED calls

\* the exchange is over and forgotten
ExchangeReturn ==
    /\ imds.pc = "done"
    /\ imds' = NoExchange
    /\ UNCHANGED signing
    /\ UNCHANGED calls

NextExchange ==
    \/ InstanceCreds
    \/ TokenResult
    \/ RoleResult
    \/ ExchangeReturn

SpecExchange == Init /\ [][NextExchange]_vars

\* ------------------------------------------------------------------------
\* The concurrent calls as a state machine
\* ------------------------------------------------------------------------

\* lines 161-211: authorize from the completion of body.frame() to its
\* return; the outcomes it may have, each the request and the error
AuthorizeResume(a, request, date) ==
    LET frames == request.body.frames
        taken == [request EXCEPT !.body = BodyAfterFrame(@)]
    IN  IF frames = <<>>
        THEN { [request |-> request, err |-> BodyNoFrame] }
        ELSE IF Head(frames).kind = "error"
        THEN { [request |-> taken, err |-> BodyFrameError] }
        ELSE IF Head(frames).kind = "trailers"
        THEN { [request |-> taken, err |-> BodyNoFrame] }
        ELSE { [request |-> tail.request, err |-> tail.err] :
                 tail \in { AuthorizeTail(a, taken, date, "frame",
                                          hex_digest(Head(frames).data), canonical_query) :
                              canonical_query \in CanonicalQueriesOf(request.uri) } }

\* lines 214-262: the Urls sign may leave
SignedUrls(a, method, u, expires_in, d) ==
    LET u1 == SignAppendParams(a, u, d, expires_in)
        ch == canonicalize_headers(SignHeaders(u1))
    IN  { append_pair(u1, "X-Amz-Signature",
                      credential_sign(a.credential,
                                      string_to_sign(a, d, scope(a, d), method, u1,
                                                     ch[2], ch[1], UNSIGNED_PAYLOAD,
                                                     canonical_query),
                                      d, a.region, a.service)) :
            canonical_query \in canonicalize_query(u1) }

\* ResumeDate that reads the clock again when the call is resumed (C13 must
\* tell the two apart)
ResumeDate_Now(slot, now) == IF slot.auth.date = NoDate THEN now ELSE slot.date

\* the calls that are suspended at the read of their body, and those that
\* have returned
Suspended == { k \in 1..MaxCalls : calls.slot[k].pc = "frame" }

Returned == { k \in 1..MaxCalls : calls.slot[k].pc = "done" }

\* the date a resumed authorize goes on with: the local it set at line 148
ResumeDate(slot, now) == slot.date

\* a credential is created and lent to the authorizers
ShareCredential ==
    /\ calls = NoCalls
    /\ \E credential \in SharedCredentials, now \in Clock :
         calls' = [NoCalls EXCEPT !.credential = credential, !.now = now]
    /\ UNCHANGED signing
    /\ UNCHANGED imds

\* time passes
Tick ==
    /\ calls.now \in Clock
    /\ \E now \in LaterClock : calls' = [calls EXCEPT !.now = now]
    /\ UNCHANGED signing
    /\ UNCHANGED imds

\* call i is authorize: it runs to the await of body.frame(), or to its
\* return when it does not read the body
ConcurrentAuthorize ==
    /\ calls.now # NoDate
    /\ UNCHANGED signing
    /\ UNCHANGED imds
    /\ \E i \in 1..MaxCalls :
         /\ calls.slot[i].pc = "idle"
         /\ \E a \in Borrowers(calls.credential), request \in ConcurrentRequests :
            \E d \in { DateOf(a, calls.now) } :
            \E head \in { AuthorizeHead(a, request, d) } :
            \E policy \in { DigestPolicy(a, NoPre, request.body) } :
            \E started \in { [NoSlot EXCEPT !.op = "authorize", !.auth = a,
                                            !.request0 = request, !.date = d,
                                            !.began_during = Suspended] } :
              IF head.err # Ok
              THEN calls' = [calls EXCEPT
                               !.slot[i] = [started EXCEPT !.pc = "done",
                                              !.request = head.request,
                                              !.result = head.err,
                                              !.ended_after = Returned]]
              ELSE IF policy = "frame"
              THEN calls' = [calls EXCEPT
                               !.slot[i] = [started EXCEPT !.pc = "frame",
                                              !.request = head.request]]
              ELSE \E canonical_query \in CanonicalQueriesOf(head.request.uri) :
                   \E tail \in { AuthorizeTail(a, head.request, d, policy,
                                                DigestOf(policy, NoPre), canonical_query) } :
                     calls' = [calls EXCEPT
                                 !.slot[i] = [started EXCEPT !.pc = "done",
                                                !.request = tail.request,
                                                !.result = tail.err,
                                                !.ended_after = Returned]]

\* body.frame() of call i completes and the call runs to its return; the
\* credential is the one its authorizer borrows
ConcurrentFrame ==
    /\ UNCHANGED signing
    /\ UNCHANGED imds
    /\ \E i \in 1..MaxCalls :
         /\ calls.slot[i].pc = "frame"
         /\ \E slot \in { calls.slot[i] } :
            \E out \in AuthorizeResume([slot.auth EXCEPT !.credential = calls.credential],
                                       slot.request, ResumeDate(slot, calls.now)) :
              calls' = [calls EXCEPT
                          !.slot[i] = [slot EXCEPT !.pc = "done",
                                         !.request = out.request,
                                         !.result = out.err,
                                         !.ended_after = Returned]]

\* call i is sign, which does not suspend
ConcurrentSign ==
    /\ calls.now # NoDate
    /\ UNCHANGED signing
    /\ UNCHANGED imds
    /\ \E i \in 1..MaxCalls :
         /\ calls.slot[i].pc = "idle"
         /\ \E a \in Borrowers(calls.credential), u \in ConcurrentUrls :
            \E d \in { DateOf(a, calls.now) } :
            \E signed \in SignedUrls(a, "GET", u, [secs |-> 86400, nanos |-> 0], d) :
              calls' = [calls EXCEPT
                          !.slot[i] = [NoSlot EXCEPT !.pc = "done", !.op = "sign",
                                         !.auth = a, !.url0 = u, !.url = signed,
                                         !.date = d, !.result = Ok,
                                         !.began_during = Suspended,
                                         !.ended_after = Returned]]

\* every call has returned; the credential is dropped
ConcurrentReturn ==
    /\ calls # NoCalls
    /\ \A i \in 1..MaxCalls : calls.slot[i].pc \in {"idle", "done"}
    /\ calls' = NoCalls
    /\ UNCHANGED signing
    /\ UNCHANGED imds

NextConcurrent ==
    \/ ShareCredential
    \/ Tick
    \/ ConcurrentAuthorize
    \/ ConcurrentFrame
    \/ ConcurrentSign
    \/ ConcurrentReturn

SpecConcurrent == Init /\ [][NextConcurrent]_vars

\* ------------------------------------------------------------------------
\* Properties
\* ------------------------------------------------------------------------

EndsWith(s, suffix) ==
    Len(s) >= Len(suffix) /\ SubSeq(s, Len(s) - Len(suffix) + 1, Len(s)) = suffix

AuthorizeDone == op = "authorize" /\ pc = "done"

C2_Original ==
    (AuthorizeDone /\ result = Ok /\ req0.body.exact = 0) =>
        GetAll(req.headers, "x-amz-content-sha256") =
            <<"e3b0c44298fc1c149afbf4c8996fb92427ae41e4649b934ca495991b7852b855">>

\* C2 amended: after a successful authorize of a request whose body has the
\* exact length 0, x-amz-content-sha256 is the empty-string SHA-256 constant
\* when sign_payload is true and no pre-calculated digest was passed; it is
\* UNSIGNED-PAYLOAD when sign_payload is false, and the hex of the
\* pre-calculated digest when sign_payload is true and one was passed
C2_EmptyBodyDigest ==
    (AuthorizeDone /\ result = Ok /\ req0.body.exact = 0) =>
        GetAll(req.headers, "x-amz-content-sha256") =
            IF ~auth.sign_payload THEN <<"UNSIGNED-PAYLOAD">>
            ELSE IF pre.some THEN <<hex_encode(pre.bytes)>>
            ELSE <<"e3b0c44298fc1c149afbf4c8996fb92427ae41e4649b934ca495991b7852b855">>

\* C2 witness: a successful signed call without a pre-calculated digest on a
\* request whose body has the exact length 0
C2_Witness ==
    /\ AuthorizeDone /\ result = Ok
    /\ req0.body.exact = 0 /\ auth.sign_payload /\ ~pre.some
    /\ GetHeader(req.headers, "x-amz-content-sha256") # None

C3_Steps == <<"token", "host", "date", "digest", "authorization">>

C3_Index(step) == CHOOSE i \in 1..5 : C3_Steps[i] = step

C3_HeaderOf(i) ==
    CASE i = 1 -> IF auth.token_header = None THEN "x-amz-security-token"
                  ELSE auth.token_header
      [] i = 2 -> "host"
      [] i = 3 -> "x-amz-date"
      [] i = 4 -> "x-amz-content-sha256"
      [] i = 5 -> "authorization"

C3_ValueOf(i) ==
    CASE i = 1 -> auth.credential.token
      [] i = 2 -> AuthorityStr(req0.uri.authority)
      [] i = 3 -> cur_date.ymd \o "T" \o cur_date.hms \o "Z"
      [] i = 4 -> tr.digest

C3_HeaderNames(hm) == { hm[i][1] : i \in 1..Len(hm) }

C4_Excluded == {"authorization", "content-length", "user-agent"}

\* the entries of the collection that canonicalize_headers may not drop
C4_Kept == SelectSeq(args.raw, LAMBDA e : HeaderNameOf(e[1]) \notin C4_Excluded)

C4_Names == { HeaderNameOf(C4_Kept[i][1]) : i \in 1..Len(C4_Kept) }

RECURSIVE C4_JoinTrimmed(_)
C4_JoinTrimmed(entries) ==
    IF entries = <<>> THEN ""
    ELSE Trim(Head(entries)[2])
         \o (IF Len(entries) > 1 THEN "," ELSE "")
         \o C4_JoinTrimmed(Tail(entries))

C4_Line(name) ==
    name \o ":"
    \o C4_JoinTrimmed(SelectSeq(C4_Kept, LAMBDA e : HeaderNameOf(e[1]) = name))
    \o "\n"

RECURSIVE C4_Lines(_)
C4_Lines(names) ==
    IF names = <<>> THEN "" ELSE C4_Line(Head(names)) \o C4_Lines(Tail(names))

C5_Count(pairs, p) == Len(SelectSeq(pairs, LAMBDA q : q = p))

\* the two sequences hold the same pairs the same number of times
C5_SameBag(a, b) ==
    /\ Len(a) = Len(b)
    /\ \A i \in 1..Len(a) : C5_Count(a, a[i]) = C5_Count(b, a[i])

C5_KeysAscending(pairs) ==
    \A i \in 1..(Len(pairs) - 1) : StrCmp(pairs[i][1], pairs[i + 1][1]) <= 0

\* C5 as stated: canonicalize_query gives the pairs in ascending order of
\* their keys; two URLs whose queries hold the same multiset of pairs, in any
\* order, get the same string; an absent or empty query gets ""
C5_OrderInsensitive ==
    (op = "canonicalize_query" /\ pc = "done") =>
        /\ url0.query \in {None, ""} => tr.canonical_query = ""
        /\ C5_KeysAscending(ParseSegments(Split(tr.canonical_query, "&")))
        /\ (prev # NoCall /\ C5_SameBag(query_pairs(prev.url), query_pairs(url0)))
              => prev.ret = tr.canonical_query

RECURSIVE C6_StableSort(_)
C6_StableSort(pairs) ==
    IF pairs = <<>> THEN <<>>
    ELSE LET k == MinKey(KeysOf(pairs))
         IN  WithKey(pairs, k) \o C6_StableSort(WithoutKey(pairs, k))

C7_Appended ==
    <<"X-Amz-Algorithm", "X-Amz-Credential", "X-Amz-Date", "X-Amz-Expires",
      "X-Amz-SignedHeaders">>
    \o (IF auth.credential.token # None THEN <<"X-Amz-Security-Token">> ELSE <<>>)
    \o <<"X-Amz-Signature">>

\* C7: sign keeps the URL's query pairs and appends X-Amz-Algorithm,
\* X-Amz-Credential, X-Amz-Date, X-Amz-Expires (the whole seconds of the
\* duration), X-Amz-SignedHeaders=host, X-Amz-Security-Token exactly when the
\* credential has a token, and last X-Amz-Signature, once.  The signature
\* signs the canonical request whose query line holds all the other pairs
\* and no X-Amz-Signature, whose digest is UNSIGNED-PAYLOAD and whose one
\* header is host, whatever sign_payload is.
C7_PresignOrder ==
    (op = "sign" /\ pc = "done") =>
        LET before == query_pairs(url0)
            after == query_pairs(cur_url)
            n == Len(before)
            m == Len(C7_Appended)
            value(i) == after[n + i][2]
            signed == ParseSegments(Split(tr.canonical_query, "&"))
            lines == Split(tr.canonical_request, "\n")
        IN  /\ Len(after) = n + m
            /\ SubSeq(after, 1, n) = before
            /\ \A i \in 1..m : after[n + i][1] = C7_Appended[i]
            /\ value(1) = "AWS4-HMAC-SHA256"
            /\ value(2) = auth.credential.key_id \o "/" \o cur_date.ymd \o "/"
                          \o auth.region \o "/" \o auth.service \o "/aws4_request"
            /\ value(3) = cur_date.ymd \o "T" \o cur_date.hms \o "Z"
            /\ DecimalValue(value(4), 0) = args.expires_in.secs
            /\ value(5) = "host"
            /\ auth.credential.token # None => value(6) = auth.credential.token
            /\ value(m) = tr.signature
            /\ C5_SameBag(signed, SubSeq(after, 1, n + m - 1))
            /\ \A i \in 1..Len(signed) : signed[i][1] # "X-Amz-Signature"
            /\ tr.digest = "UNSIGNED-PAYLOAD"
            /\ tr.signed_headers = "host"
            /\ tr.canonical_headers = "host:" \o UrlHostPort(url0) \o "\n"
            /\ lines[1] = args.method
            /\ lines[3] = tr.canonical_query
            /\ SubSeq(lines, 4, Len(lines))
                   = <<"host:" \o UrlHostPort(url0), "", "host", "UNSIGNED-PAYLOAD">>
            /\ EndsWith(tr.string_to_sign, "\n" \o hex_digest(tr.canonical_request))
            /\ tr.signature = credential_sign(auth.credential, tr.string_to_sign,
                                              cur_date, auth.region, auth.service)

\* C7 witness: an authorizer with sign_payload true and a session token has
\* presigned an URL that had two query pairs
C7_Witness ==
    /\ op = "sign" /\ pc = "done"
    /\ auth.sign_payload /\ auth.credential.token = "sessiontoken"
    /\ url0.query = "b=2&a=%2F"
    /\ Len(query_pairs(cur_url)) = 9
    /\ query_pairs(cur_url)[9] = <<"X-Amz-Signature", tr.signature>>

\* C8 as stated: a successful authorize of a request whose URI has an
\* explicit port leaves exactly one host header, host ":" port, and the
\* canonical headers that are signed have the line host: host ":" port
C8_HostWithPort ==
    (AuthorizeDone /\ result = Ok /\ req0.uri.authority.port # None) =>
        LET host_port == req0.uri.authority.host \o ":" \o req0.uri.authority.port
            lines == Split(tr.canonical_headers, "\n")
        IN  /\ GetAll(req.headers, "host") = <<host_port>>
            /\ \E i \in 1..Len(lines) : lines[i] = "host:" \o host_port
            /\ \A i \in 1..Len(lines) :
                   (Len(lines[i]) >= 5 /\ SubSeq(lines[i], 1, 5) = "host:")
                       => lines[i] = "host:" \o host_port

\* C9 as stated: authorize changes nothing of the request but its headers, to
\* which it adds at most five; the body (its frames and its size), the method
\* and the URI are after the call what they were before it
C9_BodyUntouched ==
    AuthorizeDone =>
        /\ req.body = req0.body
        /\ req.method = req0.method
        /\ req.uri = req0.uri
        /\ Len(req.headers) <= Len(req0.headers) + 5

\* the unreserved characters: A-Z a-z 0-9 - . _ ~
C10_IsUnreserved(c) == IsAlnum(c) \/ c \in {"-", ".", "_", "~"}

\* the characters of path that the pass over the strict path set escapes
C10_Escaped(path) ==
    { i \in 1..Len(path) : ~C10_IsUnreserved(CharAt(path, i)) /\ CharAt(path, i) # "/" }

\* C10 as stated: the canonical URI is the path for the service "s3" and the
\* path percent-encoded once more for every other service; the two differ
\* exactly when the path has a character outside the unreserved set
C10_Original ==
    (op = "string_to_sign" /\ pc = "done") =>
        /\ auth.service = "s3" => tr.canonical_uri = url0.path
        /\ auth.service # "s3" =>
              (tr.canonical_uri # url0.path
                  <=> \E i \in 1..Len(url0.path) : ~C10_IsUnreserved(CharAt(url0.path, i)))

\* C10 amended: the canonical URI is the path for the service "s3" (and no
\* other spelling of it); for every other service it is the path with one
\* more percent-encoding pass that leaves the unreserved characters and "/"
\* and turns every other character, "%" included, into its %XX escape.  The
\* two differ exactly when the path has a character that is neither
\* unreserved nor "/".
C10_CanonicalUri ==
    (op = "string_to_sign" /\ pc = "done") =>
        LET path == url0.path
            c_uri == tr.canonical_uri
        IN  /\ auth.service = "s3" => c_uri = path
            /\ auth.service # "s3" =>
                  /\ Len(c_uri) = Len(path) + 2 * Cardinality(C10_Escaped(path))
                  /\ \A i \in 1..Len(c_uri) :
                         \/ C10_IsUnreserved(CharAt(c_uri, i))
                         \/ CharAt(c_uri, i) \in {"/", "%"}
                  /\ FormDecode(c_uri) = path
                  /\ c_uri # path <=> C10_Escaped(path) # {}

\* C10 witness: for the service ec2 the escape of a path has been escaped
\* once more, and its "/" kept
C10_Witness ==
    /\ op = "string_to_sign" /\ pc = "done"
    /\ auth.service = "ec2"
    /\ url0.path = "/a%20b/c.txt"
    /\ tr.canonical_uri = "/a%2520b/c.txt"

C11_Sent(method) == SelectSeq(imds.sent, LAMBDA r : r.method = method)

C11_TokenHeaders(request) ==
    SelectSeq(request.headers, LAMBDA h : h[1] = "x-aws-ec2-metadata-token")

\* C11: in every state of an exchange at most one PUT and at most one GET
\* have been sent, the PUT first.  The GET has been sent only when the
\* response to the PUT has arrived with the status 200, or with the status
\* 403 and imdsv1_fallback true.  A response to the PUT with any other status
\* ends the exchange with the I/O error and without a GET.  The GET has the
\* X-aws-ec2-metadata-token header, holding the token, exactly when the
\* status was 200.
C11_GetAfterToken ==
    LET puts == C11_Sent("PUT")
        gets == C11_Sent("GET")
        answer == imds.token_result
        answered == answer # NoResponse /\ ~answer.send_err
        accepted == \/ answer.status = "200 OK"
                    \/ answer.status = "403 Forbidden" /\ imds.imdsv1_fallback
    IN  /\ Len(puts) <= 1 /\ Len(gets) <= 1
        /\ Len(imds.sent) = Len(puts) + Len(gets)
        /\ gets # <<>> =>
              /\ imds.sent[1].method = "PUT"
              /\ imds.sent[2] = gets[1]
              /\ answered /\ accepted
              /\ gets[1].uri = imds.endpoint \o "/latest/meta-data/iam/security-credentials/"
              /\ C11_TokenHeaders(gets[1]) =
                     IF answer.status = "200 OK"
                     THEN << <<"x-aws-ec2-metadata-token", answer.body>> >>
                     ELSE <<>>
        /\ (answered /\ ~accepted) =>
              /\ imds.pc = "done"
              /\ imds.ret = "Err(HttpError::Io(Other, Invalid token))"
              /\ gets = <<>>

\* C11 witness: the PUT was answered 403, the caller had opted into the
\* fallback, and the GET has been sent without a token header
C11_Witness ==
    /\ imds.token_result.status = "403 Forbidden"
    /\ imds.imdsv1_fallback
    /\ Len(imds.sent) = 2
    /\ imds.sent[2].method = "GET"
    /\ C11_TokenHeaders(imds.sent[2]) = <<>>

\* C12 as stated: an exchange in which the token endpoint answered with a
\* status that is neither 200 nor the accepted 403, or the role endpoint
\* answered with a status that is not a success, ends with the I/O error;
\* and no exchange in which an endpoint answered with a failure status
\* returns Ok with a credential
C12_FailureIsIoError ==
    imds.pc = "done" =>
        LET StatusFailed(r) == r # NoResponse /\ ~r.send_err /\ SubSeq(r.status, 1, 1) # "2"
            token_failed == /\ StatusFailed(imds.token_result)
                            /\ ~(imds.token_result.status = "403 Forbidden"
                                 /\ imds.imdsv1_fallback)
            role_failed == StatusFailed(imds.role_result)
        IN  (token_failed \/ role_failed) =>
                /\ imds.ret = "Err(HttpError::Io(Other, Invalid token))"
                /\ SubSeq(imds.ret, 1, 2) # "Ok"

\* C14: with an authorizer whose date is fixed, a second authorize on the
\* request that a first call has signed successfully (the digest being
\* UNSIGNED-PAYLOAD, the pre-calculated one, or the one of the empty body)
\* succeeds and leaves every header, Authorization with its SignedHeaders
\* and Signature included, as the first call left it
C14_ReauthorizeIdempotent ==
    (op = "reauthorize" /\ pc = "done" /\ auth.date # NoDate
        /\ DigestPolicy(auth, pre, req0.body) \in {"unsigned", "precalculated", "empty"}) =>
        /\ result = Ok
        /\ req.headers = args.headers
        /\ GetAll(req.headers, "authorization") = GetAll(args.headers, "authorization")
        /\ Len(GetAll(req.headers, "authorization")) = 1
        /\ req.body = req0.body

\* C14 witness: a request with headers of its own and a session token has
\* been authorized twice with a fixed date and a pre-calculated digest
C14_Witness ==
    /\ op = "reauthorize" /\ pc = "done" /\ result = Ok
    /\ auth.date = FixedDate /\ auth.sign_payload /\ pre.some
    /\ auth.credential.token # None
    /\ req0.headers # <<>>
    /\ GetHeader(args.headers, "authorization") # None
    /\ GetHeader(req.headers, "authorization") = GetHeader(args.headers, "authorization")

\* authorize run from its call to its return with nothing in between: the
\* outcomes it may have
C13_AuthorizeAlone(a, request, pre_calculated_digest, date) ==
    LET head == AuthorizeHead(a, request, date)
        policy == DigestPolicy(a, pre_calculated_digest, request.body)
    IN  IF head.err # Ok THEN { [request |-> head.request, err |-> head.err] }
        ELSE IF policy = "frame" THEN AuthorizeResume(a, head.request, date)
        ELSE { [request |-> tail.request, err |-> tail.err] :
                 tail \in { AuthorizeTail(a, head.request, date, policy,
                                          DigestOf(policy, pre_calculated_digest),
                                          canonical_query) :
                              canonical_query \in CanonicalQueriesOf(head.request.uri) } }

=============================================================================
